---- MODULE Spec2Model ----
(***************************************************************************)
(* Personal finance API (backend/server.py): four document collections     *)
(* (users, income, expenses, categories), the CRUD handlers that write     *)
(* them, and the read-and-compute pipeline get_monthly_data ->             *)
(* categorize_expenses -> detect_overspending -> get_spending_analysis /   *)
(* get_savings_recommendations.                                            *)
(*                                                                         *)
(* Money amounts are integers.  Every value the code obtains by a float    *)
(* division (budget share, overspend percentage, savings rate, percentage  *)
(* change) is an exact rational [num, den] in lowest terms; a division by  *)
(* zero raises ZeroDivisionError as float division does in Python and the  *)
(* request ends with status 500.  Float rounding is not modelled.          *)
(*                                                                         *)
(* Document identifiers are the uuid4 defaults of the pydantic models:     *)
(* fresh on every insert.  A collection is a sequence in insertion order,  *)
(* the order find() returns and dicts built from it keep.  A user's name   *)
(* and created_at, a record's source and description, and a category's     *)
(* color and icon are stored and never read by a computation; they are     *)
(* left out.                                                               *)
(*                                                                         *)
(* A handler is a coroutine that never awaits, so one server process runs  *)
(* each request to completion; every handler is one action.  The store is  *)
(* a database outside the process: with a second server process on it a    *)
(* write can fall between two reads of one handler.  SpecParallel takes    *)
(* the analysis in the two steps that matter for that, its first read of   *)
(* the month and everything after it; pending holds the request between    *)
(* the two.                                                                *)
(*                                                                         *)
(* Spec          one user's month against every budget, amount, category   *)
(* SpecDirectory the same month while the directory loses categories       *)
(* SpecMonths    income and expenses over December, January and February   *)
(* SpecLedger    two owners' records over two months, listed and deleted   *)
(* SpecUsers     the user endpoints alone                                  *)
(* SpecParallel  an analysis with writes between its two reads             *)
(***************************************************************************)
EXTENDS Integers, Sequences, FiniteSets

VARIABLES users, income, expenses, categories, nextExpense, response, pending

vars == <<users, income, expenses, categories, nextExpense, response, pending>>

\* ---------------------------------------------------------------- bounds
MaxUsers    == 2
MaxIncome   == 1
MaxExpenses == 2

\* ------------------------------------------------------------- rationals
RECURSIVE Gcd(_, _)
Gcd(a, b) == IF b = 0 THEN a ELSE Gcd(b, a % b)

Abs(x) == IF x < 0 THEN -x ELSE x

\* n/d, d # 0, in lowest terms with a positive denominator
Rat(n, d) ==
    LET g == Gcd(Abs(n), Abs(d))
        s == IF d < 0 THEN -1 ELSE 1
    IN  [num |-> (s * n) \div g, den |-> (s * d) \div g]

FromInt(n)  == [num |-> n, den |-> 1]
RMul(p, q)  == Rat(p.num * q.num, p.den * q.den)
RSub(p, q)  == Rat(p.num * q.den - q.num * p.den, p.den * q.den)
RDiv(p, q)  == Rat(p.num * q.den, p.den * q.num)
RLess(p, q) == p.num * q.den < q.num * p.den
RIsZero(p)  == p.num = 0

\* ------------------------------------------------------------ seed data
\* Two of the nine seeded categories (DEFAULT_CATEGORIES), by id.
DEFAULT_CATEGORIES ==
    << [id |-> "c1", name |-> "Food & Dining", budget_percentage |-> 15],
       [id |-> "c2", name |-> "Education",     budget_percentage |-> 5] >>

\* A category stored without a share: Category.budget_percentage defaults
\* to 0.0.
UnsharedCategory == [id |-> "c3", name |-> "Gifts", budget_percentage |-> 0]

CategoryDocs == DEFAULT_CATEGORIES \o << UnsharedCategory >>

\* An ISO date string "YYYY-MM-DD", as its eight digits.
IsoDates == { <<2, 0, 2, 4, 1, 2, 2, 0>>,     \* 2024-12-20
              <<2, 0, 2, 5, 0, 1, 1, 5>>,     \* 2025-01-15
              <<2, 0, 2, 5, 0, 2, 0, 3>> }    \* 2025-02-03

\* datetime.fromisoformat(date).year / .month
DateYear(d)  == d[1] * 1000 + d[2] * 100 + d[3] * 10 + d[4]
DateMonth(d) == d[5] * 10 + d[6]

\* -------------------------------------------------------------- helpers
RECURSIVE SumAmounts(_)
\* sum(doc["amount"] for doc in docs)
SumAmounts(docs) ==
    IF docs = << >> THEN 0 ELSE Head(docs).amount + SumAmounts(Tail(docs))

\* The first and the last of a set of positions
First(S) == CHOOSE i \in S : \A j \in S : i <= j
Last(S)  == CHOOSE i \in S : \A j \in S : j <= i

\* users_collection.find_one({"id": user_id}): whether it is not None, and
\* the document, the first that matches
UserFound(user_id) == \E i \in DOMAIN users : users[i].id = user_id
FindUser(user_id) ==
    users[First({i \in DOMAIN users : users[i].id = user_id})]

\* users_collection.find_one({"email": email}) is not None
EmailFound(email) == \E i \in DOMAIN users : users[i].email = email

\* category_id in {cat["id"]: cat for cat in find()}, and the entry: the
\* last document with that id
CategoryKnown(category_id) ==
    \E i \in DOMAIN categories : categories[i].id = category_id
CategoryById(category_id) ==
    categories[Last({i \in DOMAIN categories :
                        categories[i].id = category_id})]

\* category_name in {cat["name"]: cat for cat in find()}, and the entry
CategoryListed(category_name) ==
    \E i \in DOMAIN categories : categories[i].name = category_name
CategoryByName(category_name) ==
    categories[Last({i \in DOMAIN categories :
                        categories[i].name = category_name})]

\* ------------------------------------------------------ helper functions
\* The month's documents of every user
get_monthly_data_AnyUser(user_id, month, year) ==
    LET Hit(doc) == doc.month = month /\ doc.year = year
    IN  [income_data  |-> SelectSeq(income, Hit),
         expense_data |-> SelectSeq(expenses, Hit)]

\* get_monthly_data: the documents whose (user_id, month, year) match
get_monthly_data(user_id, month, year) ==
    LET Hit(doc) == doc.user_id = user_id /\ doc.month = month /\ doc.year = year
    IN  [income_data  |-> SelectSeq(income, Hit),
         expense_data |-> SelectSeq(expenses, Hit)]

\* breakdown[name] += amount on a defaultdict(float); insertion order kept
AddSpend(breakdown, name, amount) ==
    IF \E i \in DOMAIN breakdown : breakdown[i].name = name
    THEN [i \in DOMAIN breakdown |->
            IF breakdown[i].name = name
            THEN [breakdown[i] EXCEPT !.spent = @ + amount]
            ELSE breakdown[i]]
    ELSE Append(breakdown, [name |-> name, spent |-> amount])

RECURSIVE Breakdown(_, _)
Breakdown(breakdown, exps) ==
    IF exps = << >> THEN breakdown
    ELSE LET expense == Head(exps)
             known   == CategoryKnown(expense.category_id)
             cat     == CategoryById(expense.category_id)
         IN  Breakdown(IF known THEN AddSpend(breakdown, cat.name, expense.amount)
                                ELSE breakdown,
                       Tail(exps))

RECURSIVE BreakdownUnchecked(_, _)
\* The loop without "if category_id in categories": an expense whose
\* category is gone is summed under its category_id
BreakdownUnchecked(breakdown, exps) ==
    IF exps = << >> THEN breakdown
    ELSE LET expense == Head(exps)
             known   == CategoryKnown(expense.category_id)
             cat     == CategoryById(expense.category_id)
         IN  BreakdownUnchecked(
                 AddSpend(breakdown,
                          IF known THEN cat.name ELSE expense.category_id,
                          expense.amount),
                 Tail(exps))

categorize_expenses_Unchecked(exps) == BreakdownUnchecked(<< >>, exps)

\* categorize_expenses: the dict name -> summed spend, as the sequence of
\* its items in insertion order
categorize_expenses(exps) == Breakdown(<< >>, exps)

RECURSIVE InsertDesc(_, _)
\* r goes after every element whose key is >= its own: equal keys keep
\* their input order, as sorted(..., reverse=True) keeps them
InsertDesc(sorted, r) ==
    IF sorted = << >> THEN << r >>
    ELSE IF RLess(Head(sorted).overspent, r.overspent)
         THEN << r >> \o sorted
         ELSE << Head(sorted) >> \o InsertDesc(Tail(sorted), r)

RECURSIVE SortedDesc(_, _)
SortedDesc(sorted, rest) ==
    IF rest = << >> THEN sorted
    ELSE SortedDesc(InsertDesc(sorted, Head(rest)), Tail(rest))

\* The list as the loop built it, never sorted
SortByOverspent_Unsorted(overspending) == overspending

\* sorted(overspending, key=lambda x: x["overspent"], reverse=True)
SortByOverspent(overspending) == SortedDesc(<< >>, overspending)

\* monthly_budget * (budget_percentage / 100)
ExpectedBudget(monthly_budget, budget_percentage) ==
    RMul(FromInt(monthly_budget), Rat(budget_percentage, 100))

\* spent > expected_budget
Exceeds(spent, expected_budget) == RLess(expected_budget, FromInt(spent))

\* The dict appended for one overspent category; the percentage divides by
\* expected_budget
OverspendRecord(category_name, spent, expected_budget) ==
    [category   |-> category_name,
     spent      |-> spent,
     budget     |-> expected_budget,
     overspent  |-> RSub(FromInt(spent), expected_budget),
     percentage |-> RMul(RDiv(RSub(FromInt(spent), expected_budget),
                              expected_budget),
                         FromInt(100))]

Ok(v)     == [error |-> "none", value |-> v]
Raise(e)  == [error |-> e, value |-> << >>]

RECURSIVE OverspendingLoop(_, _, _)
\* for category_name, spent in category_spending.items(): ...
OverspendingLoop(overspending, items, monthly_budget) ==
    IF items = << >> THEN Ok(overspending)
    ELSE LET category_name == Head(items).name
             spent         == Head(items).spent
             listed        == CategoryListed(category_name)
             cat           == CategoryByName(category_name)
             expected      == ExpectedBudget(monthly_budget,
                                             cat.budget_percentage)
         IN  IF listed /\ Exceeds(spent, expected)
             THEN IF RIsZero(expected)
                  THEN Raise("ZeroDivisionError")
                  ELSE OverspendingLoop(
                           Append(overspending,
                                  OverspendRecord(category_name, spent, expected)),
                           Tail(items), monthly_budget)
             ELSE OverspendingLoop(overspending, Tail(items), monthly_budget)

\* Only "if not user: return []", the zero-budget return left out
NoBudget_AbsentOnly(user_id) == ~UserFound(user_id)

\* if not user: return []  /  if monthly_budget == 0: return []
NoBudget(user_id) ==
    \/ ~UserFound(user_id)
    \/ FindUser(user_id).monthly_budget = 0

detect_overspending(user_id, month, year) ==
    LET exps              == get_monthly_data(user_id, month, year).expense_data
        category_spending == categorize_expenses(exps)
    IN  IF NoBudget(user_id) THEN Ok(<< >>)
        ELSE LET monthly_budget == FindUser(user_id).monthly_budget
                 found == OverspendingLoop(<< >>, category_spending,
                                           monthly_budget)
             IN  IF found.error = "none"
                 THEN Ok(SortByOverspent(found.value))
                 ELSE found

\* tips_db.get(category, ["Review your spending in this category"])
Tips(category) ==
    IF category = "Food & Dining"
    THEN << "Cook more meals at home instead of ordering takeout",
            "Plan weekly meals and create shopping lists",
            "Use grocery store apps for discounts and coupons",
            "Buy generic brands instead of name brands" >>
    ELSE << "Review your spending in this category" >>

\* Recommendations made only for the categories tips_db has an entry for
generate_savings_tips_KnownOnly(overspending_data) ==
    LET InTipsDb(r) == r.category = "Food & Dining"
        known       == SelectSeq(overspending_data, InTipsDb)
    IN  [i \in DOMAIN known |->
            [category           |-> known[i].category,
             current_spending   |-> known[i].spent,
             recommended_budget |-> known[i].budget,
             potential_savings  |-> known[i].overspent,
             tips               |-> Tips(known[i].category)]]

\* generate_savings_tips: one SavingsRecommendation per record, in order
generate_savings_tips(overspending_data) ==
    [i \in DOMAIN overspending_data |->
        [category           |-> overspending_data[i].category,
         current_spending   |-> overspending_data[i].spent,
         recommended_budget |-> overspending_data[i].budget,
         potential_savings  |-> overspending_data[i].overspent,
         tips               |-> Tips(overspending_data[i].category)]]

\* ------------------------------------------------------------- requests
\* The last request served: what it was, the month it was evaluated for,
\* its HTTP status and its JSON body.
Reply(op, user_id, month, year, status, body) ==
    [op |-> op, user_id |-> user_id, month |-> month, year |-> year,
     status |-> status, body |-> body]

NoBody == << >>

\* A query parameter left out (None); 0 is as falsy as None in
\* "if not month or not year"
Omitted == 0

\* month, year = now.month, now.year unless both are given
EffectiveMonth(month, year, now) ==
    IF month = Omitted \/ year = Omitted THEN DateMonth(now) ELSE month
EffectiveYear(month, year, now) ==
    IF month = Omitted \/ year = Omitted THEN DateYear(now) ELSE year

\* prev_month
PrevMonth(month) == IF month > 1 THEN month - 1 ELSE 12

\* The year never rolled back
PrevYear_SameYear(month, year) == year

\* prev_year
PrevYear(month, year) == IF month > 1 THEN year ELSE year - 1

\* The subtraction turned round
RemainingBudget_Swapped(total_income, total_expenses) ==
    total_expenses - total_income

\* remaining_budget = total_income - total_expenses
RemainingBudget(total_income, total_expenses) == total_income - total_expenses

\* A full savings rate reported when there is no income
SavingsRate_FullWithoutIncome(remaining_budget, total_income) ==
    IF total_income > 0
    THEN RMul(RDiv(FromInt(remaining_budget), FromInt(total_income)),
              FromInt(100))
    ELSE FromInt(100)

\* (remaining_budget / total_income * 100) if total_income > 0 else 0
SavingsRate(remaining_budget, total_income) ==
    IF total_income > 0
    THEN RMul(RDiv(FromInt(remaining_budget), FromInt(total_income)),
              FromInt(100))
    ELSE FromInt(0)

\* The percentage guarded by this month's total, a first month of spending
\* reported as a 100 % rise
MonthComparison_GuardCurrent(total_expenses, prev_total_expenses) ==
    [current_month     |-> total_expenses,
     previous_month    |-> prev_total_expenses,
     difference        |-> total_expenses - prev_total_expenses,
     percentage_change |->
        IF prev_total_expenses > 0
        THEN RMul(RDiv(FromInt(total_expenses - prev_total_expenses),
                       FromInt(prev_total_expenses)),
                  FromInt(100))
        ELSE IF total_expenses > 0 THEN FromInt(100) ELSE FromInt(0)]

\* the month_comparison dict
MonthComparison(total_expenses, prev_total_expenses) ==
    [current_month     |-> total_expenses,
     previous_month    |-> prev_total_expenses,
     difference        |-> total_expenses - prev_total_expenses,
     percentage_change |->
        IF prev_total_expenses > 0
        THEN RMul(RDiv(FromInt(total_expenses - prev_total_expenses),
                       FromInt(prev_total_expenses)),
                  FromInt(100))
        ELSE FromInt(0)]

\* The body of get_spending_analysis for an explicit (month, year)
Analysis(user_id, month, year) ==
    LET data            == get_monthly_data(user_id, month, year)
        total_income    == SumAmounts(data.income_data)
        total_expenses  == SumAmounts(data.expense_data)
        remaining       == RemainingBudget(total_income, total_expenses)
        breakdown       == categorize_expenses(data.expense_data)
        overspending    == detect_overspending(user_id, month, year)
        prev            == get_monthly_data(user_id, PrevMonth(month),
                                            PrevYear(month, year))
        prev_total      == SumAmounts(prev.expense_data)
    IN  IF overspending.error # "none" THEN overspending
        ELSE Ok([total_income            |-> total_income,
                 total_expenses          |-> total_expenses,
                 remaining_budget        |-> remaining,
                 category_breakdown      |-> breakdown,
                 overspending_categories |-> overspending.value,
                 savings_rate            |-> SavingsRate(remaining, total_income),
                 month_comparison        |-> MonthComparison(total_expenses,
                                                             prev_total)])

\* ---------------------------------------------------------------- state
\* The store as the handlers find it: no users, income or expenses yet, the
\* category directory filled by its owner.
Init ==
    /\ users = << >>
    /\ income = << >>
    /\ expenses = << >>
    /\ categories = CategoryDocs
    /\ nextExpense = 1
    /\ response = Reply("none", 0, Omitted, Omitted, 200, NoBody)
    /\ pending = << >>

\* ------------------------------------------------------------- handlers
\* POST /api/test-user: inserts the fixed test user, unconditionally
test_create_user ==
    /\ Len(users) < MaxUsers
    /\ users' = Append(users, [id |-> Len(users) + 1,
                               email |-> "test@example.com",
                               monthly_budget |-> 3000])
    /\ response' = Reply("test_create_user", 0, Omitted, Omitted, 200, NoBody)
    /\ UNCHANGED <<income, expenses, categories, nextExpense, pending>>

\* POST /api/users
create_user(email, monthly_budget) ==
    IF EmailFound(email)
    THEN /\ response' = Reply("create_user", 0, Omitted, Omitted, 400, NoBody)
         /\ UNCHANGED <<users, income, expenses, categories, nextExpense, pending>>
    ELSE /\ Len(users) < MaxUsers
         /\ users' = Append(users, [id |-> Len(users) + 1,
                                    email |-> email,
                                    monthly_budget |-> monthly_budget])
         /\ response' = Reply("create_user", 0, Omitted, Omitted, 200, NoBody)
         /\ UNCHANGED <<income, expenses, categories, nextExpense, pending>>

\* The document rebuilt from the update, a budget that was not sent back at
\* its default
SetFields_Defaults(doc, user_update) ==
    [f \in DOMAIN doc \cup DOMAIN user_update |->
        IF f \in DOMAIN user_update THEN user_update[f]
        ELSE IF f = "monthly_budget" THEN 0 ELSE doc[f]]

\* {"$set": user_update} on one document
SetFields(doc, user_update) ==
    [f \in DOMAIN doc \cup DOMAIN user_update |->
        IF f \in DOMAIN user_update THEN user_update[f] ELSE doc[f]]

\* PUT /api/users/{user_id}: update_one changes the first match
update_user(user_id, user_update) ==
    IF UserFound(user_id)
    THEN LET first == First({i \in DOMAIN users : users[i].id = user_id})
         IN  /\ users' = [users EXCEPT ![first] = SetFields(@, user_update)]
             /\ response' = Reply("update_user", 0, Omitted, Omitted, 200, NoBody)
             /\ UNCHANGED <<income, expenses, categories, nextExpense, pending>>
    ELSE /\ response' = Reply("update_user", 0, Omitted, Omitted, 404, NoBody)
         /\ UNCHANGED <<users, income, expenses, categories, nextExpense, pending>>

\* POST /api/income: month and year are taken from the date, whatever the
\* caller sent for them
add_income(user_id, amount, date, sent_month, sent_year) ==
    /\ Len(income) < MaxIncome
    /\ income' = Append(income, [id |-> Len(income) + 1,
                                 user_id |-> user_id,
                                 amount |-> amount,
                                 date |-> date,
                                 month |-> DateMonth(date),
                                 year |-> DateYear(date)])
    /\ response' = Reply("add_income", 0, Omitted, Omitted, 200, NoBody)
    /\ UNCHANGED <<users, expenses, categories, nextExpense, pending>>

\* The month and year of the request body stored as they were sent
add_expense_KeepSent(user_id, amount, category_id, date, sent_month, sent_year) ==
    /\ nextExpense <= MaxExpenses
    /\ expenses' = Append(expenses, [id |-> nextExpense,
                                     user_id |-> user_id,
                                     amount |-> amount,
                                     category_id |-> category_id,
                                     date |-> date,
                                     month |-> sent_month,
                                     year |-> sent_year])
    /\ nextExpense' = nextExpense + 1
    /\ response' = Reply("add_expense", 0, Omitted, Omitted, 200, NoBody)
    /\ UNCHANGED <<users, income, categories, pending>>

\* POST /api/expenses
add_expense(user_id, amount, category_id, date, sent_month, sent_year) ==
    /\ nextExpense <= MaxExpenses
    /\ expenses' = Append(expenses, [id |-> nextExpense,
                                     user_id |-> user_id,
                                     amount |-> amount,
                                     category_id |-> category_id,
                                     date |-> date,
                                     month |-> DateMonth(date),
                                     year |-> DateYear(date)])
    /\ nextExpense' = nextExpense + 1
    /\ response' = Reply("add_expense", 0, Omitted, Omitted, 200, NoBody)
    /\ UNCHANGED <<users, income, categories, pending>>

\* The oldest document removed, whichever one matched
Without_Oldest(coll, at) ==
    [i \in 1..(Len(coll) - 1) |-> coll[i + 1]]

\* delete_one: the collection without the document at position at
Without(coll, at) ==
    [i \in 1..(Len(coll) - 1) |-> IF i < at THEN coll[i] ELSE coll[i + 1]]

\* The positions of the expenses with that id
ExpensesWithId(expense_id) ==
    {i \in DOMAIN expenses : expenses[i].id = expense_id}

\* DELETE /api/expenses/{expense_id}
delete_expense(expense_id) ==
    IF ExpensesWithId(expense_id) # {}
    THEN /\ expenses' = Without(expenses, First(ExpensesWithId(expense_id)))
         /\ response' = Reply("delete_expense", 0, Omitted, Omitted, 200, NoBody)
         /\ UNCHANGED <<users, income, categories, nextExpense, pending>>
    ELSE /\ response' = Reply("delete_expense", 0, Omitted, Omitted, 404, NoBody)
         /\ UNCHANGED <<users, income, expenses, categories, nextExpense, pending>>

\* GET /api/users/{user_id}
get_user(user_id) ==
    /\ response' = IF UserFound(user_id)
                   THEN Reply("get_user", user_id, Omitted, Omitted, 200,
                              FindUser(user_id))
                   ELSE Reply("get_user", user_id, Omitted, Omitted, 404,
                              NoBody)
    /\ UNCHANGED <<users, income, expenses, categories, nextExpense, pending>>

\* GET /api/expenses/{user_id}: the month filter applies only when month and
\* year are both given
get_expenses(user_id, month, year) ==
    LET Hit(e) == /\ e.user_id = user_id
                  /\ (month # Omitted /\ year # Omitted)
                        => (e.month = month /\ e.year = year)
    IN  /\ response' = Reply("get_expenses", user_id, month, year, 200,
                             SelectSeq(expenses, Hit))
        /\ UNCHANGED <<users, income, expenses, categories, nextExpense, pending>>

\* A user the analysis does not find registered on the way
get_spending_analysis_Upsert(user_id, month, year, now) ==
    LET m   == EffectiveMonth(month, year, now)
        y   == EffectiveYear(month, year, now)
        out == Analysis(user_id, m, y)
    IN  /\ response' = IF out.error = "none"
                       THEN Reply("analysis", user_id, m, y, 200, out.value)
                       ELSE Reply("analysis", user_id, m, y, 500, NoBody)
        /\ users' = IF ~UserFound(user_id) /\ Len(users) < MaxUsers
                    THEN Append(users, [id |-> user_id, email |-> "",
                                        monthly_budget |-> 0])
                    ELSE users
        /\ UNCHANGED <<income, expenses, categories, nextExpense, pending>>

\* GET /api/analysis/{user_id}
get_spending_analysis(user_id, month, year, now) ==
    LET m   == EffectiveMonth(month, year, now)
        y   == EffectiveYear(month, year, now)
        out == Analysis(user_id, m, y)
    IN  /\ response' = IF out.error = "none"
                       THEN Reply("analysis", user_id, m, y, 200, out.value)
                       ELSE Reply("analysis", user_id, m, y, 500, NoBody)
        /\ UNCHANGED <<users, income, expenses, categories, nextExpense, pending>>

\* GET /api/recommendations/{user_id}
get_savings_recommendations(user_id, month, year, now) ==
    LET m   == EffectiveMonth(month, year, now)
        y   == EffectiveYear(month, year, now)
        out == detect_overspending(user_id, m, y)
    IN  /\ response' =
              IF out.error = "none"
              THEN Reply("recommendations", user_id, m, y, 200,
                         generate_savings_tips(out.value))
              ELSE Reply("recommendations", user_id, m, y, 500, NoBody)
        /\ UNCHANGED <<users, income, expenses, categories, nextExpense, pending>>

\* GET /api/analysis/{user_id} up to category_breakdown: the month's income
\* and expenses are read, summed and broken down by category
begin_spending_analysis(user_id, month, year, now) ==
    LET m    == EffectiveMonth(month, year, now)
        y    == EffectiveYear(month, year, now)
        data == get_monthly_data(user_id, m, y)
    IN  /\ pending = << >>
        /\ pending' = << [user_id            |-> user_id,
                          month              |-> m,
                          year               |-> y,
                          total_income       |-> SumAmounts(data.income_data),
                          total_expenses     |-> SumAmounts(data.expense_data),
                          category_breakdown |->
                              categorize_expenses(data.expense_data)] >>
        /\ UNCHANGED <<users, income, expenses, categories, nextExpense,
                       response>>

\* GET /api/analysis/{user_id} from detect_overspending on: the month's
\* expenses are read again, then the month before, and the reply is built
finish_spending_analysis ==
    /\ pending # << >>
    /\ LET p            == pending[1]
           remaining    == RemainingBudget(p.total_income, p.total_expenses)
           overspending == detect_overspending(p.user_id, p.month, p.year)
           prev         == get_monthly_data(p.user_id, PrevMonth(p.month),
                                            PrevYear(p.month, p.year))
           prev_total   == SumAmounts(prev.expense_data)
       IN  response' =
              IF overspending.error # "none"
              THEN Reply("analysis", p.user_id, p.month, p.year, 500, NoBody)
              ELSE Reply("analysis", p.user_id, p.month, p.year, 200,
                      [total_income            |-> p.total_income,
                       total_expenses          |-> p.total_expenses,
                       remaining_budget        |-> remaining,
                       category_breakdown      |-> p.category_breakdown,
                       overspending_categories |-> overspending.value,
                       savings_rate            |->
                           SavingsRate(remaining, p.total_income),
                       month_comparison        |->
                           MonthComparison(p.total_expenses, prev_total)])
    /\ pending' = << >>
    /\ UNCHANGED <<users, income, expenses, categories, nextExpense>>

\* The directory's owner deletes one category document; no request of this
\* API is being answered
remove_category(category_id) ==
    /\ CategoryKnown(category_id)
    /\ categories' = Without(categories,
                             First({i \in DOMAIN categories :
                                       categories[i].id = category_id}))
    /\ response' = Reply("remove_category", 0, Omitted, Omitted, 200, NoBody)
    /\ UNCHANGED <<users, income, expenses, nextExpense, pending>>

\* -------------------------------------------------------- specifications
\* Identifiers a request may name: the ones given out so far and one that
\* was not
UserIds     == 1..(Len(users) + 1)
ExpenseIds  == 1..nextExpense
CategoryIds == {CategoryDocs[i].id : i \in DOMAIN CategoryDocs}

\* What a caller sends for month and year with a new record
Sent == [month |-> 7, year |-> 1999]

\* The (month, year) a query may name: any month with any year of the
\* dates, neither, or a month without a year
QueriesOf(dates) ==
    {<<DateMonth(d), DateYear(e)>> : d \in dates, e \in dates}
        \cup {<<Omitted, Omitted>>}
        \cup {<<DateMonth(CHOOSE d \in dates : TRUE), Omitted>>}

\* Requests to each handler, drawn from the given values
CreateUsers(emails, budgets) ==
    \E e \in emails, b \in budgets : create_user(e, b)

UpdateBudgets(budgets) ==
    \E u \in UserIds, b \in budgets : update_user(u, [monthly_budget |-> b])

UpdateEmails(emails) ==
    \E u \in UserIds, e \in emails : update_user(u, [email |-> e])

AddIncomes(owners, amounts, dates) ==
    \E u \in owners, a \in amounts, d \in dates :
        add_income(u, a, d, Sent.month, Sent.year)

AddExpenses(owners, amounts, cats, dates) ==
    \E u \in owners, a \in amounts, c \in cats, d \in dates :
        add_expense(u, a, c, d, Sent.month, Sent.year)

DeleteExpenses == \E x \in ExpenseIds : delete_expense(x)

\* The clock readings that matter to a query: every one when the month or
\* the year is left out, any one when both are given
NowFor(month, year, dates) ==
    IF month = Omitted \/ year = Omitted THEN dates
    ELSE {CHOOSE d \in dates : TRUE}

GetAnalyses(dates) ==
    \E u \in UserIds, q \in QueriesOf(dates) :
        \E now \in NowFor(q[1], q[2], dates) :
            get_spending_analysis(u, q[1], q[2], now)

GetRecommendations(dates) ==
    \E u \in UserIds, q \in QueriesOf(dates) :
        \E now \in NowFor(q[1], q[2], dates) :
            get_savings_recommendations(u, q[1], q[2], now)

RemoveCategories == \E c \in CategoryIds : remove_category(c)

GetUsers == \E u \in UserIds : get_user(u)

GetExpenses(dates) ==
    \E u \in UserIds, q \in QueriesOf(dates) : get_expenses(u, q[1], q[2])

February == { <<2, 0, 2, 5, 0, 2, 0, 3>> }
Budgets  == {-100, 0, 100, 3000}
Amounts  == {-5, 0, 5, 600}

\* One user's month against the budget: every budget, amount and category
Next ==
    \/ CreateUsers({"a@example.com"}, Budgets)
    \/ UpdateBudgets(Budgets)
    \/ AddExpenses({1}, Amounts, CategoryIds, February)
    \/ DeleteExpenses
    \/ GetAnalyses(February)
    \/ GetRecommendations(February)

Spec == Init /\ [][Next]_vars

\* One user's month while the directory loses categories
NextDirectory ==
    \/ CreateUsers({"a@example.com"}, {-100, 0, 100})
    \/ AddExpenses({1}, {0, 5, 600}, CategoryIds, February)
    \/ DeleteExpenses
    \/ GetAnalyses(February)
    \/ GetRecommendations(February)
    \/ RemoveCategories

SpecDirectory == Init /\ [][NextDirectory]_vars

\* Three months of one user's income and expenses in one category
NextMonths ==
    \/ CreateUsers({"a@example.com"}, {100})
    \/ AddIncomes({1}, {0, 7}, {d \in IsoDates : DateYear(d) = 2025})
    \/ AddExpenses({1}, {0, 600}, {"c1"}, IsoDates)
    \/ DeleteExpenses
    \/ GetAnalyses(IsoDates)

SpecMonths == Init /\ [][NextMonths]_vars

Year2025 == {d \in IsoDates : DateYear(d) = 2025}
Emails   == {"a@example.com", "test@example.com"}

\* Two owners' records over January and February, listed, analysed and deleted
NextLedger ==
    \/ CreateUsers({"a@example.com"}, {100})
    \/ AddIncomes({1, 2}, {7}, February)
    \/ AddExpenses({1, 2}, {600}, {"c1"}, Year2025)
    \/ DeleteExpenses
    \/ GetExpenses(Year2025)
    \/ GetAnalyses(Year2025)

SpecLedger == Init /\ [][NextLedger]_vars

\* The user endpoints alone: registration, the test user, updates of the
\* budget and of the email, and reads
NextUsers ==
    \/ test_create_user
    \/ CreateUsers(Emails, {100})
    \/ UpdateBudgets({3500})
    \/ UpdateEmails(Emails)
    \/ GetUsers

SpecUsers == Init /\ [][NextUsers]_vars

BeginAnalyses(dates) ==
    \E u \in UserIds, q \in QueriesOf(dates) :
        \E now \in NowFor(q[1], q[2], dates) :
            begin_spending_analysis(u, q[1], q[2], now)

\* One user's month with a second server process on the same database: the
\* writes of its requests fall between the two reads of an analysis
NextParallel ==
    \/ CreateUsers({"a@example.com"}, {100})
    \/ UpdateBudgets({3000})
    \/ AddExpenses({1}, {5, 600}, {"c1"}, February)
    \/ DeleteExpenses
    \/ BeginAnalyses(February)
    \/ finish_spending_analysis

SpecParallel == Init /\ [][NextParallel]_vars

\* ---------------------------------------------------------------- claims
\* The amounts of the documents of coll at the positions in S, summed
RECURSIVE SumAt(_, _)
SumAt(coll, S) ==
    IF S = {} THEN 0
    ELSE LET i == CHOOSE j \in S : TRUE
         IN  coll[i].amount + SumAt(coll, S \ {i})

\* The request just answered was an analysis / a recommendation request
IsAnalysis        == response.op = "analysis"
IsRecommendations == response.op = "recommendations"
Answered          == response.status = 200

\* The overspend records of the answer just given (none when it failed)
Overspending ==
    IF IsAnalysis /\ Answered THEN response.body.overspending_categories
    ELSE << >>

\* The stored user the request named has / has no budget
UserKnown == \E i \in DOMAIN users : users[i].id = response.user_id
UserBudget ==
    users[CHOOSE i \in DOMAIN users : users[i].id = response.user_id].monthly_budget

\* The positions of the requested month's expenses of the requested user
MonthExpenses ==
    {i \in DOMAIN expenses :
        /\ expenses[i].user_id = response.user_id
        /\ expenses[i].month = response.month
        /\ expenses[i].year = response.year}

\* C1: the overspend records of every analysis are sorted non-increasing by
\* overspent: each record's overspent is >= the next one's.
C1_SortedByOverspent ==
    \A i \in 1..(Len(Overspending) - 1) :
        ~RLess(Overspending[i].overspent, Overspending[i + 1].overspent)

\* Position of a category name in the breakdown of the answer
BreakdownPos(name) ==
    CHOOSE i \in DOMAIN response.body.category_breakdown :
        response.body.category_breakdown[i].name = name

\* C1 witness: two categories overspent by different amounts, the larger
\* overspend met second by the loop and reported first.
C1_Witness ==
    /\ UserKnown /\ UserBudget > 0
    /\ Len(Overspending) = 2
    /\ RLess(Overspending[2].overspent, Overspending[1].overspent)
    /\ BreakdownPos(Overspending[1].category)
           > BreakdownPos(Overspending[2].category)

\* C2: when the named user is not stored, or is stored with monthly_budget
\* 0, an analysis and a recommendation request are answered without error,
\* with no overspend record and no recommendation, whatever is stored.
C2_NoBudgetNoOverspending ==
    ((IsAnalysis \/ IsRecommendations) /\ (~UserKnown \/ UserBudget = 0))
        => /\ Answered
           /\ IsAnalysis => response.body.overspending_categories = << >>
           /\ IsRecommendations => response.body = << >>

\* C2 witness: an analysis for a stored user with budget 0 whose month has
\* positive spend in the category that has no share of the budget.
C2_Witness ==
    /\ IsAnalysis /\ Answered
    /\ UserKnown /\ UserBudget = 0
    /\ \E i \in DOMAIN response.body.category_breakdown :
           /\ response.body.category_breakdown[i].name = UnsharedCategory.name
           /\ response.body.category_breakdown[i].spent > 0

\* The names of the directory, and the month's spend of the requested user
\* in the expenses that resolve to a name
Listed == {categories[i].name : i \in DOMAIN categories}
SpentIn(name) ==
    SumAt(expenses,
          {i \in MonthExpenses :
              \E k \in DOMAIN categories :
                  /\ categories[k].id = expenses[i].category_id
                  /\ categories[k].name = name})

\* Whether some expense of the month resolves to the name
HasSpend(name) ==
    \E i \in MonthExpenses, k \in DOMAIN categories :
        /\ categories[k].id = expenses[i].category_id
        /\ categories[k].name = name

\* budget_percentage of the category of that name
ShareOf(name) ==
    categories[CHOOSE k \in DOMAIN categories :
                   categories[k].name = name].budget_percentage

\* monthly_budget x budget_percentage / 100, as a rational
Allocation(name) == Rat(UserBudget * ShareOf(name), 100)

\* C3 (as claimed, for a stored user with a positive monthly_budget): a
\* category of the directory is in the overspend records of an analysis
\* exactly when its aggregated spend of the month strictly exceeds
\* monthly_budget x budget_percentage / 100, and each record carries that
\* allocation as budget and spent - budget > 0 as overspent.
C3_EmittedIffExceeds ==
    (IsAnalysis /\ UserKnown /\ UserBudget > 0)
        => /\ \A name \in Listed :
                  (\E i \in DOMAIN Overspending : Overspending[i].category = name)
                      <=> RLess(Allocation(name), FromInt(SpentIn(name)))
           /\ \A i \in DOMAIN Overspending :
                  /\ Overspending[i].budget = Allocation(Overspending[i].category)
                  /\ Overspending[i].overspent
                         = RSub(FromInt(Overspending[i].spent),
                                Overspending[i].budget)
                  /\ RLess(FromInt(0), Overspending[i].overspent)

\* C4 (as claimed): an analysis or recommendation request for a stored user
\* with a non-zero budget, in a month with positive spend in a category
\* whose expected budget is 0, does not fail.
C4_NoDivisionByZero ==
    ((IsAnalysis \/ IsRecommendations) /\ UserKnown /\ UserBudget # 0
        /\ \E name \in Listed : ShareOf(name) = 0 /\ SpentIn(name) > 0)
        => Answered

\* C9 (as claimed): no entry of the category breakdown of an analysis has
\* aggregated spend zero.
C9_NoZeroSpendEntry ==
    (IsAnalysis /\ Answered)
        => \A i \in DOMAIN response.body.category_breakdown :
               response.body.category_breakdown[i].spent # 0

\* The positions of the requested month's income of the requested user
MonthIncome ==
    {i \in DOMAIN income :
        /\ income[i].user_id = response.user_id
        /\ income[i].month = response.month
        /\ income[i].year = response.year}

\* C5: in every analysis remaining_budget = total_income - total_expenses,
\* the totals being the summed amounts of the user's income and expense
\* records of the requested month and year.
C5_RemainingBudget ==
    (IsAnalysis /\ Answered)
        => /\ response.body.total_income = SumAt(income, MonthIncome)
           /\ response.body.total_expenses = SumAt(expenses, MonthExpenses)
           /\ response.body.remaining_budget
                  = SumAt(income, MonthIncome) - SumAt(expenses, MonthExpenses)

\* C5 witness: a month with income, more expenses than income, and an
\* expense of the same user stored under another month.
C5_Witness ==
    /\ IsAnalysis /\ Answered
    /\ response.body.total_income > 0
    /\ response.body.remaining_budget < 0
    /\ \E i \in DOMAIN expenses :
           /\ i \notin MonthExpenses
           /\ expenses[i].user_id = response.user_id
           /\ expenses[i].amount > 0

\* C6: savings_rate is 0 when total_income is 0, whatever the expenses;
\* when total_income > 0 it is remaining_budget / total_income x 100.
C6_SavingsRate ==
    (IsAnalysis /\ Answered)
        => LET rate     == response.body.savings_rate
               earned   == SumAt(income, MonthIncome)
               leftover == earned - SumAt(expenses, MonthExpenses)
           IN  /\ earned = 0 => rate.num = 0
               /\ earned > 0 =>
                      /\ rate.den > 0
                      /\ rate.num * earned = leftover * 100 * rate.den

\* C6 witness: an analysis of a month with expenses and an income record of
\* amount 0.
C6_Witness ==
    /\ IsAnalysis /\ Answered
    /\ MonthIncome # {}
    /\ response.body.total_income = 0
    /\ response.body.total_expenses > 0

\* The positions of the requested user's expenses dated in the calendar
\* month before the requested one
PreviousMonthExpenses ==
    {i \in DOMAIN expenses :
        /\ expenses[i].user_id = response.user_id
        /\ IF response.month = 1
           THEN /\ DateMonth(expenses[i].date) = 12
                /\ DateYear(expenses[i].date) = response.year - 1
           ELSE /\ DateMonth(expenses[i].date) = response.month - 1
                /\ DateYear(expenses[i].date) = response.year}

\* C7: percentage_change is 0 whenever the previous month's expenses total
\* 0 (also when there are none), and difference is always current_month -
\* previous_month.
C7_MonthComparison ==
    (IsAnalysis /\ Answered)
        => LET cmp == response.body.month_comparison
           IN  /\ SumAt(expenses, PreviousMonthExpenses) = 0
                      => cmp.percentage_change.num = 0
               /\ cmp.difference = cmp.current_month - cmp.previous_month
               /\ cmp.current_month = SumAt(expenses, MonthExpenses)

\* C7 witness: spending this month, a previous month whose only expense has
\* amount 0.
C7_Witness ==
    /\ IsAnalysis /\ Answered
    /\ PreviousMonthExpenses # {}
    /\ response.body.month_comparison.previous_month = 0
    /\ response.body.month_comparison.current_month > 0

\* C8: previous_month is the sum of the user's expenses of month - 1 of the
\* same year, and of December of year - 1 for a January analysis; an
\* expense is of the month and year its date says.
C8_PreviousMonth ==
    (IsAnalysis /\ Answered)
        => response.body.month_comparison.previous_month
               = SumAt(expenses, PreviousMonthExpenses)

\* C8 witness: a January analysis that counts a December expense of the
\* year before.
C8_Witness ==
    /\ IsAnalysis /\ Answered
    /\ response.month = 1
    /\ response.body.month_comparison.previous_month > 0

\* The category ids of the directory
ListedIds == {categories[k].id : k \in DOMAIN categories}

ExpenseIdsStored == {expenses[i].id : i \in DOMAIN expenses}

\* What delete_expense(x) must have done to the store
DeleteEffect(x) ==
    IF x \in ExpenseIdsStored
    THEN /\ response'.status = 200
         /\ expenses' = SelectSeq(expenses, LAMBDA e : e.id # x)
         /\ \A i \in DOMAIN expenses' : expenses'[i].id # x
    ELSE /\ response'.status = 404
         /\ expenses' = expenses

\* An identifier given out earlier and stored no more stays out of the store
StaysDeleted(x) ==
    x \notin ExpenseIdsStored
        => \A i \in DOMAIN expenses' : expenses'[i].id # x

\* C11: deleting an expense id that matches nothing answers 404 and leaves
\* the expenses as they were; deleting a stored id answers 200, removes that
\* expense and keeps every other one in place; an id once deleted is never
\* stored again, and a list-expenses reply holds stored expenses only.
C11_DeleteExactlyThat ==
    /\ [][\A x \in ExpenseIds :
              /\ delete_expense(x) => DeleteEffect(x)
              /\ x < nextExpense => StaysDeleted(x)]_vars
    /\ [](response.op = "get_expenses"
            => \A i \in DOMAIN response.body :
                  \E j \in DOMAIN expenses : expenses[j] = response.body[i])

\* An expense was deleted and another one is still stored and listed
C11_Witness ==
    /\ response.op = "get_expenses"
    /\ Len(response.body) = 1
    /\ Len(expenses) = 1
    /\ nextExpense = 3

\* C12: no two stored users share an email.
C12_EmailsUnique ==
    \A i, j \in DOMAIN users : users[i].email = users[j].email => i = j

\* The update bodies sent to update_user
UpdatesSent ==
    {[monthly_budget |-> 3500]} \cup {[email |-> e] : e \in Emails}

\* Positions of the users with that id
UsersWithId(user_id) == {i \in DOMAIN users : users[i].id = user_id}

\* What update_user(user_id, user_update) must have done to the users
UpdateEffect(user_id, user_update) ==
    IF UsersWithId(user_id) = {}
    THEN /\ response'.status = 404
         /\ users' = users
    ELSE /\ response'.status = 200
         /\ Len(users') = Len(users)
         /\ \A i \in DOMAIN users :
               /\ DOMAIN users'[i] = DOMAIN users[i]
               /\ \A f \in DOMAIN users[i] :
                     users'[i][f] =
                        IF users[i].id = user_id /\ f \in DOMAIN user_update
                        THEN user_update[f]
                        ELSE users[i][f]

\* C15: update_user on an id nobody has answers 404 and leaves the users as
\* they were; on a stored id it answers 200, gives that user exactly the
\* fields sent and changes no other field and no other user; get_user then
\* returns the stored document.
C15_UpdateSetsSentFields ==
    /\ [][\A u \in UserIds, upd \in UpdatesSent :
              update_user(u, upd) => UpdateEffect(u, upd)]_vars
    /\ [](response.op = "get_user" /\ response.status = 200
            => \E i \in DOMAIN users :
                  /\ users[i].id = response.user_id
                  /\ response.body = users[i])

\* The first of two users has read back the budget an update gave them, the
\* second user keeps theirs
C15_Witness ==
    /\ response.op = "get_user"
    /\ response.status = 200
    /\ response.user_id = 1
    /\ response.body.monthly_budget = 3500
    /\ Len(users) = 2
    /\ users[2].monthly_budget = 100

\* month and year of a stored record are the ones of its date
DatedByItsDate(doc) ==
    /\ doc.month = DateMonth(doc.date)
    /\ doc.year = DateYear(doc.date)

\* C13: every stored income and expense record carries the month and the
\* year of its own date, whatever month and year the caller sent with it,
\* and no later request changes the three fields of a stored record.
C13_MonthYearFromDate ==
    /\ [](/\ \A i \in DOMAIN income : DatedByItsDate(income[i])
          /\ \A i \in DOMAIN expenses : DatedByItsDate(expenses[i]))
    /\ [][\A i \in DOMAIN expenses, j \in DOMAIN expenses' :
              expenses[i].id = expenses'[j].id
                  => /\ expenses'[j].date = expenses[i].date
                     /\ expenses'[j].month = expenses[i].month
                     /\ expenses'[j].year = expenses[i].year]_vars
    /\ [][\A i \in DOMAIN income :
              /\ i \in DOMAIN income'
              /\ income'[i] = income[i]]_vars

\* An income and an expense are stored under the months of their dates, not
\* the month and year sent with them
C13_Witness ==
    /\ Len(income) = 1
    /\ Len(expenses) = 2
    /\ income[1].month = 2 /\ income[1].year = 2025
    /\ expenses[1].month = 1 /\ expenses[1].year = 2025
    /\ expenses[2].month = 2
    /\ \A i \in DOMAIN expenses : expenses[i].month # Sent.month
    /\ response.op = "get_expenses"

\* C14: a recommendations reply holds one recommendation per overspend
\* record of detect_overspending for that user and month, in the same order
\* (potential_savings never rising), with the record's category, spent as
\* current_spending, budget as recommended_budget and overspent as
\* potential_savings.
C14_OnePerOverspendRecord ==
    (IsRecommendations /\ Answered) =>
        LET found == detect_overspending(response.user_id, response.month,
                                         response.year).value
            recs  == response.body
        IN  /\ Len(recs) = Len(found)
            /\ \A i \in DOMAIN recs :
                  /\ recs[i].category = found[i].category
                  /\ recs[i].current_spending = found[i].spent
                  /\ recs[i].recommended_budget = found[i].budget
                  /\ recs[i].potential_savings = found[i].overspent
            /\ \A i, j \in DOMAIN recs :
                  i < j => ~RLess(recs[i].potential_savings,
                                  recs[j].potential_savings)

\* Two recommendations, the larger saving first, the second one for a
\* category without tips of its own
C14_Witness ==
    /\ IsRecommendations /\ Answered
    /\ Len(response.body) = 2
    /\ RLess(response.body[2].potential_savings,
             response.body[1].potential_savings)
    /\ response.body[1].category = "Education"
    /\ response.body[2].category = "Food & Dining"

\* The records a report for (user_id, month, year) may depend on: the user's
\* income and expenses of that month and their expenses of the month before
Own(coll, user_id, month, year) ==
    SelectSeq(coll, LAMBDA doc : /\ doc.user_id = user_id
                                 /\ doc.month = month
                                 /\ doc.year = year)

OwnRecords(user_id, month, year) ==
    << Own(income, user_id, month, year),
       Own(expenses, user_id, month, year),
       Own(expenses, user_id, PrevMonth(month), PrevYear(month, year)) >>

\* The report worked out from the user's own records alone, the user's
\* budget and the directory
ReportFrom(user_id, own) ==
    LET total_income   == SumAmounts(own[1])
        total_expenses == SumAmounts(own[2])
        spending       == categorize_expenses(own[2])
        found          == IF NoBudget(user_id) THEN Ok(<< >>)
                          ELSE OverspendingLoop(<< >>, spending,
                                   FindUser(user_id).monthly_budget)
    IN  IF found.error # "none" THEN found
        ELSE Ok([total_income            |-> total_income,
                 total_expenses          |-> total_expenses,
                 remaining_budget        |-> total_income - total_expenses,
                 category_breakdown      |-> spending,
                 overspending_categories |-> SortByOverspent(found.value),
                 savings_rate            |->
                     SavingsRate(total_income - total_expenses, total_income),
                 month_comparison        |->
                     MonthComparison(total_expenses, SumAmounts(own[3]))])

\* C16: the report for (U, M, Y) is a function of the income and expenses
\* stored for exactly (U, M, Y) and of U's expenses of the month before, so
\* that records of another user or another month, added or deleted, never
\* change it; with no record for (U, M, Y) the request is answered with
\* totals 0 and an empty breakdown, not with an error.
C16_OwnRecordsOnly ==
    IsAnalysis =>
        LET own    == OwnRecords(response.user_id, response.month,
                                 response.year)
            report == ReportFrom(response.user_id, own)
        IN  /\ Answered <=> report.error = "none"
            /\ Answered => response.body = report.value
            /\ (own[1] = << >> /\ own[2] = << >>) =>
                  /\ Answered
                  /\ response.body.total_income = 0
                  /\ response.body.total_expenses = 0
                  /\ response.body.category_breakdown = << >>

\* User 1's February report counts their own expense and not the one user 2
\* stored in the same month and category
C16_Witness ==
    /\ IsAnalysis /\ Answered
    /\ response.user_id = 1 /\ response.month = 2
    /\ Len(expenses) = 2
    /\ expenses[1].user_id = 2 /\ expenses[1].month = 2
    /\ expenses[2].user_id = 1 /\ expenses[2].month = 2
    /\ Len(income) = 1 /\ income[1].user_id = 2
    /\ response.body.total_expenses = 600
    /\ response.body.total_income = 0

\* C17: a step that answers an analysis or a recommendations request, for
\* any user id (registered or not) and any month, leaves users, income,
\* expenses and categories as they were.
C17_ReadsChangeNothing ==
    [][response'.op \in {"analysis", "recommendations"}
          => UNCHANGED <<users, income, expenses, categories>>]_vars

\* A report was answered for an id nobody has while a user and expenses
\* are stored
C17_Witness ==
    /\ IsAnalysis /\ Answered
    /\ ~UserKnown
    /\ Len(users) = 1
    /\ Len(expenses) = 2

\* The entries of a category_breakdown summed
BreakdownSum(breakdown) ==
    SumAmounts([i \in DOMAIN breakdown |-> [amount |-> breakdown[i].spent]])

\* The month's expenses whose category_id the directory does not hold
Unresolved == {i \in MonthExpenses : expenses[i].category_id \notin ListedIds}

\* C19: in a report over a month whose expenses all have positive amounts,
\* the category_breakdown sums to at most total_expenses, to exactly
\* total_expenses when and only when every expense of the month has a
\* category_id of the directory, and the shortfall is the summed amount of
\* the expenses that have not.
C19_BreakdownWithinTotal ==
    (/\ IsAnalysis /\ Answered
     /\ \A i \in MonthExpenses : expenses[i].amount > 0)
        => LET covered == BreakdownSum(response.body.category_breakdown)
               total   == response.body.total_expenses
           IN  /\ covered <= total
               /\ covered = total <=> Unresolved = {}
               /\ total - covered = SumAt(expenses, Unresolved)

\* A month of two positive expenses, one in a listed category and one whose
\* category is gone: the breakdown falls short of the total by the second
C19_Witness ==
    /\ IsAnalysis /\ Answered
    /\ Cardinality(MonthExpenses) = 2
    /\ Cardinality(Unresolved) = 1
    /\ \A i \in MonthExpenses : expenses[i].amount > 0
    /\ BreakdownSum(response.body.category_breakdown) = 5
    /\ response.body.total_expenses = 605

\* C18: in every answered analysis each overspend record's spent is the
\* category_breakdown entry of its category in the same report, and the
\* category_breakdown sums to at most total_expenses, also when expenses
\* are added or deleted or the user is updated while the report is made.
C18_CoherentReport ==
    (IsAnalysis /\ Answered) =>
        LET breakdown == response.body.category_breakdown
            records   == response.body.overspending_categories
        IN  /\ \A r \in DOMAIN records :
                  \E i \in DOMAIN breakdown :
                      /\ breakdown[i].name = records[r].category
                      /\ breakdown[i].spent = records[r].spent
            /\ BreakdownSum(breakdown) <= response.body.total_expenses

====
